---------------------------- MODULE Spec2Model ----------------------------
(***************************************************************************)
(* akita_flask/testing.py: the WSGI-to-HAR converter (wsgi_to_har_entry)   *)
(* and the recording test client (HarClient).                              *)
(*                                                                         *)
(* Text is a sequence of one-character strings, a byte string a sequence   *)
(* of integers 0..255, a dict a sequence of <<key, value>> pairs in        *)
(* insertion order (Python dicts iterate in insertion order), a float a    *)
(* rational [num, den].                                                    *)
(***************************************************************************)
EXTENDS Integers, Sequences, FiniteSets, TLC

VARIABLES
    conv_in,        \* converter run: the inputs of one wsgi_to_har_entry call
    conv_out,       \* converter run: its result
    default_path,   \* the default of har_file_path, fixed when line 114 is executed
    client,         \* the HarClient objects
    files,          \* the trace files on disk, by path
    issued,         \* per client, the entries built for the exchanges that returned
    last            \* what the last operation did

conv_vars == <<conv_in, conv_out>>
rec_vars == <<default_path, client, files, issued, last>>
vars == <<conv_in, conv_out, default_path, client, files, issued, last>>

(***************************************************************************)
(* Bounds of the checked instances.                                        *)
(***************************************************************************)
MaxParams == 3
MaxBodyLen == 2
MaxElapsed == 1
MaxEntries == 2

(***************************************************************************)
(* Generic sequence helpers.                                               *)
(***************************************************************************)
SeqsUpTo(S, n) == UNION {[1..k -> S] : k \in 0..n}

RECURSIVE Join(_, _)
Join(ss, sep) ==
    IF ss = <<>> THEN <<>>
    ELSE IF Len(ss) = 1 THEN Head(ss)
    ELSE Head(ss) \o sep \o Join(Tail(ss), sep)

\* str.find(ch): the first index of ch in s, 0 when absent (1-based).
Find(s, ch) ==
    IF \E i \in 1..Len(s) : s[i] = ch
    THEN CHOOSE i \in 1..Len(s) : s[i] = ch /\ \A j \in 1..(i - 1) : s[j] # ch
    ELSE 0

\* str.split(ch, 1): one or two parts.
Split1(s, ch) ==
    LET i == Find(s, ch)
    IN  IF i = 0 THEN <<s>>
        ELSE <<SubSeq(s, 1, i - 1), SubSeq(s, i + 1, Len(s))>>

\* str.split(ch): every part.
RECURSIVE SplitAll(_, _)
SplitAll(s, ch) ==
    LET i == Find(s, ch)
    IN  IF i = 0 THEN <<s>>
        ELSE <<SubSeq(s, 1, i - 1)>> \o SplitAll(SubSeq(s, i + 1, Len(s)), ch)

(***************************************************************************)
(* bytes.decode("utf-8") and str.encode("utf-8"), strict, for code points  *)
(* below U+10000 (one to three bytes).                                     *)
(***************************************************************************)
IsCont(b) == b >= 128 /\ b <= 191

Utf8EncodeChar(cp) ==
    IF cp < 128 THEN <<cp>>
    ELSE IF cp < 2048 THEN <<192 + (cp \div 64), 128 + (cp % 64)>>
    ELSE <<224 + (cp \div 4096), 128 + ((cp \div 64) % 64), 128 + (cp % 64)>>

RECURSIVE Utf8Encode(_)
Utf8Encode(text) ==
    IF text = <<>> THEN <<>>
    ELSE Utf8EncodeChar(Head(text)) \o Utf8Encode(Tail(text))

\* [ok |-> TRUE, text |-> code points] or [ok |-> FALSE] (UnicodeDecodeError).
RECURSIVE Utf8Decode(_)
Utf8Decode(bs) ==
    IF bs = <<>> THEN [ok |-> TRUE, text |-> <<>>]
    ELSE
      LET b == Head(bs)
          n == IF b < 128 THEN 1
               ELSE IF b >= 194 /\ b <= 223 THEN 2
               ELSE IF b >= 224 /\ b <= 239 THEN 3
               ELSE 0
      IN  IF n = 0 \/ Len(bs) < n \/ \E i \in 2..n : ~IsCont(bs[i])
          THEN [ok |-> FALSE, text |-> <<>>]
          ELSE
            LET cp == IF n = 1 THEN b
                      ELSE IF n = 2 THEN (b - 192) * 64 + (bs[2] - 128)
                      ELSE (b - 224) * 4096 + (bs[2] - 128) * 64 + (bs[3] - 128)
                rest == Utf8Decode(SubSeq(bs, n + 1, Len(bs)))
            IN  IF (n = 3 /\ cp < 2048) \/ ~rest.ok
                THEN [ok |-> FALSE, text |-> <<>>]
                ELSE [ok |-> TRUE, text |-> <<cp>> \o rest.text]

(***************************************************************************)
(* urllib.parse.urlsplit and urllib.parse.parse_qs.                        *)
(***************************************************************************)
Letters == {"h", "l", "s", "t", "q", "a", "b", "x", "f"}

\* urlsplit(url): scheme, then netloc after "//", then fragment, then query.
urlsplit(url) ==
    LET i == Find(url, ":")
        hasScheme == i > 1 /\ \A j \in 1..(i - 1) : url[j] \in Letters
        scheme == IF hasScheme THEN SubSeq(url, 1, i - 1) ELSE <<>>
        u1 == IF hasScheme THEN SubSeq(url, i + 1, Len(url)) ELSE url
        hasNet == Len(u1) >= 2 /\ u1[1] = "/" /\ u1[2] = "/"
        ends == {j \in 3..Len(u1) : u1[j] \in {"/", "?", "#"}}
        stop == IF ends = {} THEN Len(u1) + 1
                ELSE CHOOSE j \in ends : \A k \in ends : j <= k
        netloc == IF hasNet THEN SubSeq(u1, 3, stop - 1) ELSE <<>>
        u2 == IF hasNet THEN SubSeq(u1, stop, Len(u1)) ELSE u1
        f == Split1(u2, "#")
        fragment == IF Len(f) = 2 THEN f[2] ELSE <<>>
        q == Split1(f[1], "?")
        query == IF Len(q) = 2 THEN q[2] ELSE <<>>
    IN  [scheme |-> scheme, netloc |-> netloc, path |-> q[1],
         query |-> query, fragment |-> fragment]

\* parse_qsl(qs, keep_blank_values=False, strict_parsing=False): the
\* (name, value) pairs, a field without "=" or with an empty value skipped.
\* The alphabet holds no "%" and no "+", which unquote would rewrite.
RECURSIVE parse_qsl_fields(_)
parse_qsl_fields(fields) ==
    IF fields = <<>> THEN <<>>
    ELSE
      LET nv == Split1(Head(fields), "=")
          rest == parse_qsl_fields(Tail(fields))
      IN  IF Head(fields) = <<>> \/ Len(nv) # 2 THEN rest
          ELSE IF Len(nv[2]) = 0 THEN rest
          ELSE <<<<nv[1], nv[2]>>>> \o rest

parse_qsl(qs) == IF qs = <<>> THEN <<>> ELSE parse_qsl_fields(SplitAll(qs, "&"))

\* dict insertion: append the value to the list of an existing name, else a
\* new item at the end.
DictAppend(d, name, value) ==
    IF \E i \in 1..Len(d) : d[i][1] = name
    THEN [i \in 1..Len(d) |->
            IF d[i][1] = name THEN <<name, Append(d[i][2], value)>> ELSE d[i]]
    ELSE Append(d, <<name, <<value>>>>)

RECURSIVE parse_qs_fold(_, _)
parse_qs_fold(d, pairs) ==
    IF pairs = <<>> THEN d
    ELSE parse_qs_fold(DictAppend(d, Head(pairs)[1], Head(pairs)[2]), Tail(pairs))

\* parse_qs(qs): a dict from each name to the LIST of its values.
parse_qs(qs) == parse_qs_fold(<<>>, parse_qsl(qs))

(***************************************************************************)
(* Python values that the HAR models hold.  None is the empty option, a    *)
(* present value a one-element option.  A str and a list are told apart    *)
(* by their type tag.                                                      *)
(***************************************************************************)
None == <<>>
Some(x) == <<x>>
Str(chars) == [type |-> "str", v |-> chars]
List(items) == [type |-> "list", v |-> items]

\* A float as a rational: num / den.
Rat(n, d) == [num |-> n, den |-> d]
RatEq(a, b) == a.num * b.den = b.num * a.den

\* timedelta.total_seconds(): microseconds / 10^6.
MicrosPerSecond == 1000000
total_seconds(micros) == Rat(micros, MicrosPerSecond)

\* dict / Headers access.
HasKey(d, k) == \E i \in 1..Len(d) : d[i][1] = k
Get(d, k) == d[CHOOSE i \in 1..Len(d) : d[i][1] = k /\ \A j \in 1..(i - 1) : d[j][1] # k][2]

\* har.Record(name=..., value=...), har.PostData, har.ResponseContent,
\* har.Timings: plain data holders.
Record(name, value) == [name |-> name, value |-> value]
PostData(mimeType, text) == [mimeType |-> mimeType, text |-> text]
ResponseContent(size, mimeType, text) == [size |-> size, mimeType |-> mimeType, text |-> text]
Timings(send, wait, receive) == [send |-> send, wait |-> wait, receive |-> receive]

Raise(kind) == [ok |-> FALSE, error |-> kind, entry |-> None]
Return(entry) == [ok |-> TRUE, error |-> "none", entry |-> Some(entry)]

\* Line 63: one Record per ITEM of the parse_qs dict; the value of an item is
\* the list of the name's values.
query_string(url) ==
    LET d == parse_qs(url.query)
    IN  [i \in 1..Len(d) |-> Record(d[i][1], List(d[i][2]))]

\* Lines 77, 79: postData and bodySize of the request, from the decoded body.
request_postData(request, body) ==
    IF body = <<>> THEN None
    ELSE Some(PostData(Get(request.headers, "Content-Type"), body))

request_bodySize(body) == Len(body)

\* The response content left out when the body is empty.
response_content_if_body(response, content) ==
    IF content = <<>> THEN None
    ELSE Some(ResponseContent(Len(content), response.content_type, content))

\* Lines 94, 100: content and bodySize of the response.
response_content(response, content) ==
    Some(ResponseContent(Len(content), response.content_type, content))

response_bodySize(content) == Len(content)

\* Line 105 and line 109.
entry_time(start, built_at) == total_seconds(built_at - start.t)

entry_timings(start, built_at) == Timings(0, 0, 0)

\* wsgi_to_har_entry(start, request, response); built_at is the clock read of
\* line 105.  The result is the entry, or the exception raised: ValueError
\* (line 55), UnicodeDecodeError (lines 67, 83), KeyError (line 77).  The
\* entry's cookies, headersSize, statusText and cache are left out.
wsgi_to_har_entry(start, request, response, built_at) ==
    IF start.tzinfo = "none" THEN Raise("ValueError")
    ELSE
      LET server_protocol ==
              IF HasKey(request.environ, "SERVER_PROTOCOL")
              THEN Get(request.environ, "SERVER_PROTOCOL") ELSE "HTTP/1.1"
          url == urlsplit(request.url)
          headers == [i \in 1..Len(request.headers) |->
                         Record(request.headers[i][1], request.headers[i][2])]
          body == Utf8Decode(request.data)
          content == Utf8Decode(response.data)
      IN  IF ~body.ok THEN Raise("UnicodeDecodeError")
          ELSE IF body.text # <<>> /\ ~HasKey(request.headers, "Content-Type")
          THEN Raise("KeyError")
          ELSE IF ~content.ok THEN Raise("UnicodeDecodeError")
          ELSE Return(
            [startedDateTime |-> start,
             time |-> entry_time(start, built_at),
             request |->
               [method |-> request.method,
                url |-> url.path,
                httpVersion |-> server_protocol,
                headers |-> headers,
                queryString |-> query_string(url),
                postData |-> request_postData(request, body.text),
                bodySize |-> request_bodySize(body.text)],
             response |->
               [status |-> response.status_code,
                httpVersion |-> server_protocol,
                cookies |-> <<>>,
                headers |-> [i \in 1..Len(response.headers) |->
                               Record(response.headers[i][1], response.headers[i][2])],
                content |-> response_content(response, content.text),
                redirectURL |-> <<>>,
                bodySize |-> response_bodySize(content.text)],
             timings |-> entry_timings(start, built_at)])

(***************************************************************************)
(* Inputs of the converter.                                                *)
(***************************************************************************)
Chars == {97, 233}                      \* "a" (1 byte), e-acute (2 bytes)
Texts == SeqsUpTo(Chars, MaxBodyLen)
Bodies == {Utf8Encode(t) : t \in Texts} \cup {<<195>>}   \* <<195>>: truncated

QueryPairs == {<<<<"t">>, <<"a">>>>, <<<<"t">>, <<"b">>>>, <<<<"q">>, <<"x">>>>}
ParamLists == SeqsUpTo(QueryPairs, MaxParams)
UrlPaths == {<<"/", "s">>}
UrlBases == {<<>>, <<"h", ":", "/", "/", "l">>}
UrlFragments == {<<>>, <<"f">>}

\* The URL text of a base, a path, parameters and a fragment.
RenderUrl(base, path, params, frag) ==
    base \o path
    \o (IF params = <<>> THEN <<>>
        ELSE <<"?">> \o Join([i \in 1..Len(params) |->
                                params[i][1] \o <<"=">> \o params[i][2]], <<"&">>))
    \o (IF frag = <<>> THEN <<>> ELSE <<"#">> \o frag)

RequestKinds ==
    {[method |-> "GET", headers |-> <<>>],
     [method |-> "POST", headers |-> <<<<"Content-Type", "text/plain">>>>]}

StartTimes == {[t |-> 0, tzinfo |-> "UTC"], [t |-> 0, tzinfo |-> "none"]}

ConvInputs ==
    [start : StartTimes,
     elapsed : 0..MaxElapsed,
     kind : RequestKinds,
     base : UrlBases,
     params : ParamLists,
     frag : UrlFragments,
     reqData : Bodies,
     respData : Bodies]

InputRequest(in) ==
    [method |-> in.kind.method,
     url |-> RenderUrl(in.base, <<"/", "s">>, in.params, in.frag),
     headers |-> in.kind.headers,
     data |-> in.reqData,
     environ |-> <<<<"SERVER_PROTOCOL", "HTTP/1.1">>>>]

InputResponse(in) ==
    [status_code |-> 200,
     content_type |-> "text/plain",
     headers |-> <<<<"Content-Type", "text/plain">>>>,
     data |-> in.respData]

(***************************************************************************)
(* HarClient: the recording test client.                                   *)
(***************************************************************************)
Clients == {1, 2}

\* dict update: d[k] = v, a new key at the end.
DictSet(d, k, v) ==
    IF HasKey(d, k)
    THEN [i \in 1..Len(d) |-> IF d[i][1] = k THEN <<k, v>> ELSE d[i]]
    ELSE Append(d, <<k, v>>)

\* {**a, **b}
RECURSIVE DictMerge(_, _)
DictMerge(a, b) ==
    IF b = <<>> THEN a
    ELSE DictMerge(DictSet(a, Head(b)[1], Head(b)[2]), Tail(b))

\* Lines 31-43: the names the module binds at import.
ModuleNames ==
    {"datetime", "timezone", "time", "har", "werkzeug", "HarWriter",
     "FlaskClient", "Optional", "List", "parse", "EnvironBuilder",
     "parse_cookie", "BaseResponse", "Request", "Response"}

\* Line 114: f'akita_trace_{time.time()}.har' at clock value t.
FormatDefaultPath(t) == <<"akita_trace_", t, ".har">>

\* The clock value at which the module is imported.
ImportTime == 0

ExplicitPaths == {<<"run_", 1, ".har">>}
AllPaths == {FormatDefaultPath(ImportTime)} \cup ExplicitPaths

NoFile == [entries |-> <<>>, finalized |-> FALSE]

\* HarWriter(path, 'w'): the file is created or truncated and the container
\* opened; nothing of an earlier content is kept.  A file is a list of
\* entries: when two writers hold the same path their writes are taken in
\* call order (buffering and file offsets are not modelled).
HarWriter_open(file) == [entries |-> <<>>, finalized |-> FALSE]

\* HarWriter.write_entry on the writer of a client: a write on a closed
\* file raises ValueError and writes nothing; else the entry is appended.
write_entry(closed, file, entry) ==
    IF closed THEN [ok |-> FALSE, error |-> "ValueError", file |-> file]
    ELSE [ok |-> TRUE, error |-> "none",
          file |-> [file EXCEPT !.entries = Append(@, entry)]]

\* HarWriter.close: the container is finalized and the file closed.
HarWriter_close(file) == [file EXCEPT !.finalized = TRUE]

\* The environ_base of a FlaskClient.
environ_base == <<<<"REMOTE_ADDR", "127.0.0.1">>>>

\* Lines 135-140.
copy_environ(self, other) ==
    DictSet(DictMerge(environ_base, other),
            "flask._preserve_context", self.preserve_context)

\* EnvironBuilder.get_request(): the request of a builder; its environ is
\* the builder's environ_base plus the keys the builder computes.
get_request(msg, base) ==
    [method |-> msg.method, url |-> msg.url, headers |-> msg.headers,
     data |-> msg.data,
     environ |-> DictSet(base, "SERVER_PROTOCOL", "HTTP/1.1")]

RaiseRequest(kind) == [ok |-> FALSE, error |-> kind, request |-> None]
ReturnRequest(r) == [ok |-> TRUE, error |-> "none", request |-> Some(r)]

\* The name `copy` is looked up when lines 146 and 154 run.
copy(x) == IF "copy" \in ModuleNames THEN ReturnRequest(x) ELSE RaiseRequest("NameError")

\* Lines 129-166.  call.args is the list of positional arguments (each with
\* its Python type), call.kwargs the keyword arguments, call.msg what the
\* arguments describe.
create_wsgi_request(self, call) ==
    LET single == call.kwargs = <<>> /\ Len(call.args) = 1
        arg == call.args[1]
        loose == LET info == DictSet(call.kwargs, "environ_base",
                                     copy_environ(self,
                                        IF HasKey(call.kwargs, "environ_base")
                                        THEN Get(call.kwargs, "environ_base")
                                        ELSE <<>>))
                 IN  ReturnRequest(get_request(call.msg, Get(info, "environ_base")))
    IN  IF single /\ arg = "EnvironBuilder"
        THEN LET builder == copy(call.msg)
             IN  IF ~builder.ok THEN builder
                 ELSE ReturnRequest(get_request(builder.request[1],
                                                copy_environ(self, call.environ)))
        ELSE IF single /\ arg = "dict"
        THEN ReturnRequest(get_request(call.msg, copy_environ(self, <<>>)))
        ELSE IF single /\ arg = "Request"
        THEN LET request == copy(call.msg)
             IN  IF ~request.ok THEN request
                 ELSE ReturnRequest(
                        [method |-> call.msg.method, url |-> call.msg.url,
                         headers |-> call.msg.headers, data |-> call.msg.data,
                         environ |-> copy_environ(self, call.environ)])
        ELSE loose

\* Lines 169-171.
create_har_entry(self, start, call, response, t) ==
    LET wsgi_request == create_wsgi_request(self, call)
    IN  IF ~wsgi_request.ok THEN Raise(wsgi_request.error)
        ELSE wsgi_to_har_entry(start, wsgi_request.request[1], response, t)

\* open with the recording made best-effort: an error of the writer is
\* dropped and the response returned.
open_steps_best_effort(self, delegated, built, file) ==
    IF ~delegated.ok
    THEN [error |-> "delegated", file |-> file, returned |-> None]
    ELSE IF ~built.ok
    THEN [error |-> built.error, file |-> file, returned |-> None]
    ELSE
      LET w == write_entry(self.closed, file, built.entry[1])
      IN  [error |-> "none", file |-> w.file, returned |-> delegated.resp]

\* open with a failed conversion dropped: the response is returned and
\* nothing is written.
open_steps_swallow_build(self, delegated, built, file) ==
    IF ~delegated.ok
    THEN [error |-> "delegated", file |-> file, returned |-> None]
    ELSE IF ~built.ok
    THEN [error |-> "none", file |-> file, returned |-> delegated.resp]
    ELSE
      LET w == write_entry(self.closed, file, built.entry[1])
      IN  IF ~w.ok
          THEN [error |-> w.error, file |-> file, returned |-> None]
          ELSE [error |-> "none", file |-> w.file, returned |-> delegated.resp]

\* open that skips an entry equal to the one recorded last.
open_steps_dedup(self, delegated, built, file) ==
    IF ~delegated.ok
    THEN [error |-> "delegated", file |-> file, returned |-> None]
    ELSE IF ~built.ok
    THEN [error |-> built.error, file |-> file, returned |-> None]
    ELSE
      LET w == write_entry(self.closed, file, built.entry[1])
          dup == file.entries # <<>>
                 /\ file.entries[Len(file.entries)] = built.entry[1]
      IN  IF ~w.ok
          THEN [error |-> w.error, file |-> file, returned |-> None]
          ELSE [error |-> "none", file |-> IF dup THEN file ELSE w.file,
                returned |-> delegated.resp]

\* Lines 121-123: the delegated call, the entry (built only when the call
\* returned), the write, the return.  The result is the exception raised
\* ("none" when open returns), the file afterwards and the value returned.
open_steps(self, delegated, built, file) ==
    IF ~delegated.ok
    THEN [error |-> "delegated", file |-> file, returned |-> None]
    ELSE IF ~built.ok
    THEN [error |-> built.error, file |-> file, returned |-> None]
    ELSE
      LET w == write_entry(self.closed, file, built.entry[1])
      IN  IF ~w.ok
          THEN [error |-> w.error, file |-> file, returned |-> None]
          ELSE [error |-> "none", file |-> w.file, returned |-> delegated.resp]

(***************************************************************************)
(* Inputs of the recorder.                                                 *)
(***************************************************************************)
Msgs ==
    {[method |-> "GET",
      url |-> RenderUrl(<<>>, <<"/", "s">>, <<<<<<"t">>, <<"a">>>>>>, <<>>),
      headers |-> <<>>, data |-> <<>>],
     [method |-> "POST",
      url |-> RenderUrl(<<>>, <<"/", "s">>, <<>>, <<>>),
      headers |-> <<<<"Content-Type", "text/plain">>>>,
      data |-> Utf8Encode(<<233>>)],
     [method |-> "POST",
      url |-> RenderUrl(<<>>, <<"/", "s">>, <<>>, <<>>),
      headers |-> <<<<"Content-Type", "text/plain">>>>,
      data |-> <<195>>]}

\* The call shapes of open: one EnvironBuilder, one Request, one environ
\* dict, or loose parameters (a path, with or without keywords).
CallShapes ==
    {[args |-> <<"EnvironBuilder">>, kwargs |-> <<>>],
     [args |-> <<"Request">>, kwargs |-> <<>>],
     [args |-> <<"dict">>, kwargs |-> <<>>],
     [args |-> <<"str">>, kwargs |-> <<>>],
     [args |-> <<"str">>, kwargs |-> <<<<"method", "POST">>>>]}

Calls ==
    {[args |-> s.args, kwargs |-> s.kwargs, msg |-> m,
      environ |-> <<<<"SERVER_PROTOCOL", "HTTP/1.1">>>>] :
        s \in CallShapes, m \in Msgs}

Responses ==
    {[status_code |-> 200, content_type |-> "text/plain",
      headers |-> <<<<"Content-Type", "text/plain">>>>, data |-> <<97>>]}

\* What super().open does: it returns a response or raises.
Delegated ==
    {[ok |-> TRUE, resp |-> Some(r)] : r \in Responses}
    \cup {[ok |-> FALSE, resp |-> None]}

NoClient ==
    [pc |-> "none", har_file_path |-> FormatDefaultPath(ImportTime),
     used_default |-> FALSE, closed |-> FALSE, in_with |-> FALSE, preserve_context |-> FALSE]

\* What an operation did.  Only open is recorded; any other operation
\* leaves NoOp.
NoOp ==
    [op |-> "none", delegated_ok |-> FALSE, request_ok |-> FALSE,
     entry_ok |-> FALSE, was_closed |-> FALSE, error |-> "none",
     returned |-> None, appended |-> 0, changed |-> FALSE]

\* Lines 114-117: HarClient(...), with or without har_file_path.  Recorders
\* are constructed in the order of their numbers.
HarClient_init(c, path_arg) ==
    /\ client[c].pc = "none"
    /\ \A b \in Clients : b < c => client[b].pc # "none"
    /\ LET har_file_path == IF path_arg = None THEN default_path ELSE path_arg[1]
       IN  /\ files' = [files EXCEPT ![har_file_path] = HarWriter_open(@)]
           /\ client' = [client EXCEPT ![c] =
                            [NoClient EXCEPT !.pc = "live",
                                             !.har_file_path = har_file_path,
                                             !.used_default = (path_arg = None)]]
    /\ last' = NoOp
    /\ UNCHANGED <<default_path, issued>>

\* FlaskClient.__enter__: `with client:`.  It raises when the context is
\* already preserved.
HarClient_enter(c) ==
    /\ client[c].pc = "live"
    /\ ~client[c].in_with
    /\ client' = IF client[c].preserve_context THEN client
                 ELSE [client EXCEPT ![c].in_with = TRUE,
                                     ![c].preserve_context = TRUE]
    /\ last' = NoOp
    /\ UNCHANGED <<default_path, files, issued>>

RECURSIVE SumEntries(_)
SumEntries(P) ==
    IF P = {} THEN 0
    ELSE LET p == CHOOSE x \in P : TRUE
         IN  Len(files[p].entries) + SumEntries(P \ {p})

\* The number of entries in all the trace files.
TotalEntries == SumEntries(AllPaths)

\* Lines 119-123.  start is the clock read of line 120; d is the time that
\* passes until the clock read of line 105.
HarClient_open(c, call, delegated, start, d) ==
    /\ client[c].pc = "live"
    /\ LET self == client[c]
           path == self.har_file_path
           request == create_wsgi_request(self, call)
           built == IF delegated.ok
                    THEN create_har_entry(self, start, call, delegated.resp[1],
                                          start.t + d)
                    ELSE Raise("delegated")
           res == open_steps(self, delegated, built, files[path])
       IN  /\ self.closed \/ TotalEntries < MaxEntries
           /\ files' = [files EXCEPT ![path] = res.file]
           /\ issued' = IF res.error = "none" /\ built.ok
                        THEN [issued EXCEPT ![c] = Append(@, built.entry[1])]
                        ELSE issued
           /\ last' = [op |-> "open",
                       delegated_ok |-> delegated.ok,
                       request_ok |-> request.ok,
                       entry_ok |-> built.ok,
                       was_closed |-> self.closed,
                       error |-> res.error,
                       returned |-> res.returned,
                       appended |-> Len(res.file.entries) - Len(files[path].entries),
                       changed |-> res.file # files[path]]
    /\ UNCHANGED <<default_path, client>>

\* Lines 125-127: __exit__, at the end of a with block, normal or by an
\* exception.  A second close of the writer either raises before line 127
\* or does nothing.
HarClient_exit(c, second_close_raises) ==
    /\ client[c].pc = "live"
    /\ client[c].in_with
    /\ LET self == client[c]
           path == self.har_file_path
       IN  IF self.closed /\ second_close_raises
           THEN /\ client' = [client EXCEPT ![c].in_with = FALSE]
                /\ UNCHANGED files
           ELSE /\ files' = [files EXCEPT ![path] =
                               IF self.closed THEN @ ELSE HarWriter_close(@)]
                /\ client' = [client EXCEPT ![c].closed = TRUE,
                                            ![c].in_with = FALSE,
                                            ![c].preserve_context = FALSE]
    /\ last' = NoOp
    /\ UNCHANGED <<default_path, issued>>

\* The owning test session ends and the client is dropped; HarClient
\* defines no finalizer, so nothing runs.
EndSession(c) ==
    /\ client[c].pc = "live"
    /\ ~client[c].in_with
    /\ client' = [client EXCEPT ![c].pc = "ended", ![c].preserve_context = FALSE]
    /\ last' = NoOp
    /\ UNCHANGED <<default_path, files, issued>>

NotRun == [ok |-> FALSE, error |-> "not run", entry |-> None]

ConvIdle == [start |-> [t |-> 0, tzinfo |-> "UTC"], elapsed |-> 0,
             kind |-> [method |-> "GET", headers |-> <<>>],
             base |-> <<>>, params |-> <<>>, frag |-> <<>>,
             reqData |-> <<>>, respData |-> <<>>]

\* The module is imported at clock value 0: line 114 is executed once, then.
RecInit ==
    /\ default_path = FormatDefaultPath(ImportTime)
    /\ client = [c \in Clients |-> NoClient]
    /\ files = [p \in AllPaths |-> NoFile]
    /\ issued = [c \in Clients |-> <<>>]
    /\ last = NoOp

Init ==
    /\ RecInit
    /\ conv_in = ConvIdle
    /\ conv_out = NotRun

\* datetime.now(timezone.utc) is timezone-aware.
ClockReads == {s \in StartTimes : s.tzinfo = "UTC"}

ExplicitArgs == {Some(x) : x \in ExplicitPaths}

\* One recorder.
Next ==
    \/ \E p \in {None} \cup ExplicitArgs :
          HarClient_init(1, p) /\ UNCHANGED conv_vars
    \/ HarClient_enter(1) /\ UNCHANGED conv_vars
    \/ \E call \in Calls, delegated \in Delegated, start \in ClockReads,
          d \in 0..MaxElapsed :
          HarClient_open(1, call, delegated, start, d) /\ UNCHANGED conv_vars
    \/ \E r \in BOOLEAN : HarClient_exit(1, r) /\ UNCHANGED conv_vars
    \/ EndSession(1) /\ UNCHANGED conv_vars

Spec == Init /\ [][Next]_vars

\* Two recorders, constructed in succession; their exchanges pass an
\* environ dict and take no time.
PairCalls == {call \in Calls : call.args = <<"dict">>}

NextPair ==
    \/ \E c \in Clients, p \in {None} \cup ExplicitArgs :
          HarClient_init(c, p) /\ UNCHANGED conv_vars
    \/ \E c \in Clients : HarClient_enter(c) /\ UNCHANGED conv_vars
    \/ \E c \in Clients, call \in PairCalls, delegated \in Delegated,
          start \in ClockReads :
          HarClient_open(c, call, delegated, start, 0) /\ UNCHANGED conv_vars
    \/ \E c \in Clients, r \in BOOLEAN :
          HarClient_exit(c, r) /\ UNCHANGED conv_vars
    \/ \E c \in Clients : EndSession(c) /\ UNCHANGED conv_vars

SpecPair == Init /\ [][NextPair]_vars

(***************************************************************************)
(* The converter alone, over bounded inputs.                               *)
(***************************************************************************)
ConvInit ==
    /\ conv_in \in ConvInputs
    /\ conv_out = NotRun
    /\ RecInit

Convert ==
    /\ conv_out = NotRun
    /\ conv_out' = wsgi_to_har_entry(conv_in.start, InputRequest(conv_in),
                                     InputResponse(conv_in),
                                     conv_in.start.t + conv_in.elapsed)
    /\ UNCHANGED conv_in
    /\ UNCHANGED rec_vars

ConvNext == Convert

SpecConv == ConvInit /\ [][ConvNext]_vars

(***************************************************************************)
(* The recorder's properties.                                              *)
(***************************************************************************)
PathOf(c) == client[c].har_file_path

\* C1: for N sequential exchanges on one recorder that each return normally,
\* the trace holds exactly N entries, the i-th the entry built for the i-th
\* exchange, and after close the file is finalized with the same entries.
C1_EntriesInIssueOrder ==
    \A c \in Clients : client[c].pc # "none" =>
        /\ files[PathOf(c)].entries = issued[c]
        /\ client[c].closed <=> files[PathOf(c)].finalized

\* With two recorders: the same, for a recorder that is the only one
\* constructed on its path (checked under SpecPair).
SoleWriter(c) ==
    \A b \in Clients \ {c} : client[b].pc = "none" \/ PathOf(b) # PathOf(c)

C1_SoleWriter ==
    \A c \in Clients : (client[c].pc # "none" /\ SoleWriter(c)) =>
        /\ files[PathOf(c)].entries = issued[c]
        /\ client[c].closed <=> files[PathOf(c)].finalized

C1_Witness ==
    /\ client[1].closed
    /\ files[PathOf(1)].finalized
    /\ Len(issued[1]) = MaxEntries
    /\ issued[1][1] # issued[1][2]

C3_DistinctDefaultPaths ==
    \A a, b \in Clients :
        (a # b /\ client[a].pc # "none" /\ client[b].pc # "none"
              /\ client[a].used_default /\ client[b].used_default)
        => PathOf(a) # PathOf(b)

\* C4: whatever the call shape, once the delegated call has returned the
\* request snapshot is reconstructed.
C4_EveryShapeReconstructs ==
    (last.op = "open" /\ last.delegated_ok) => last.request_ok

\* C5: a failure to build or to append the entry is raised to the caller of
\* open: open returns the response only when exactly one entry was appended,
\* and never appends more than one.
C5_FailuresRaised ==
    last.op = "open" =>
        /\ last.appended \in {0, 1}
        /\ last.returned # None => (last.entry_ok /\ last.appended = 1)
        /\ (last.delegated_ok /\ (~last.entry_ok \/ last.was_closed))
              => (last.error # "none" /\ last.returned = None)

C5_Witness ==
    /\ last.op = "open"
    /\ last.delegated_ok
    /\ last.request_ok
    /\ ~last.entry_ok
    /\ ~last.was_closed
    /\ last.error = "UnicodeDecodeError"

\* C6: when the owning session has ended, the recorder's writer has been
\* closed and the file finalized.
C6_ClosedWhenSessionEnds ==
    \A c \in Clients : client[c].pc = "ended" =>
        (client[c].closed /\ files[PathOf(c)].finalized)

(***************************************************************************)
(* The converter's properties.                                             *)
(***************************************************************************)
Entry == conv_out.entry[1]

\* C7: request.url carries neither query nor fragment, and queryString holds
\* one (name, value) record per value occurrence, in URL order, each value a
\* single string.
C7_OneRecordPerValue ==
    conv_out.ok =>
        /\ Entry.request.url = <<"/", "s">>
        /\ Len(Entry.request.queryString) = Len(conv_in.params)
        /\ \A i \in 1..Len(conv_in.params) :
              /\ Entry.request.queryString[i].name = conv_in.params[i][1]
              /\ Entry.request.queryString[i].value.type = "str"
              /\ Entry.request.queryString[i].value.v = conv_in.params[i][2]

C9_TimeInMilliseconds ==
    conv_out.ok =>
        /\ RatEq(Entry.time, Rat(conv_in.elapsed, 1000))
        /\ RatEq(Rat(Entry.timings.wait, 1), Entry.time)
        /\ Entry.timings.send = 0
        /\ Entry.timings.receive = 0

\* C10: bodySize is the UTF-8 byte length of the body text stored in the
\* entry, for the request and for the response.
C10_BodySizeInBytes ==
    conv_out.ok =>
        /\ Entry.request.bodySize = Len(conv_in.reqData)
        /\ (Entry.request.postData # None) =>
              Entry.request.bodySize = Len(Utf8Encode(Entry.request.postData[1].text))
        /\ Entry.response.bodySize = Len(Utf8Encode(Entry.response.content[1].text))

=============================================================================
